---- MODULE Spec2Model ----
(***************************************************************************)
(* create-mono-init: the scaffold pipeline of src/index.ts                 *)
(*   collectPlan -> createProject (bootstrapTurborepo, normalizeTurborepo) *)
(*   -> postCreate                                                         *)
(* together with the pure helpers it relies on (the directory guards, the  *)
(* template resolver and the root package.json patch).                     *)
(***************************************************************************)
EXTENDS Integers, Sequences, FiniteSets, TLC

VARIABLES
    plan,           \* ScaffoldPlan: [kind, install, git] (projectName is fixed)
    run,            \* number of the current invocation of the program
    pc,             \* the step the pipeline is about to execute
    cond,           \* the failure condition of the current run, "none" if none
    trace,          \* the steps attempted so far in the current run, in order
    rootExists,     \* does <cwd>/<projectName> exist
    tree,           \* entries below the target directory: path -> who wrote it
    rootPkg,        \* parsed content of <root>/package.json
    workspaceYaml,  \* entries of the packages: list of <root>/pnpm-workspace.yaml
    start,          \* the filesystem as it was when the current run began
    prev,           \* how the previous run ended and the filesystem it left
    layout,         \* install layout: where the program and templates/ live
    resolved        \* result of the stepwise template resolver

vars == <<plan, run, pc, cond, trace, rootExists, tree, rootPkg, workspaceYaml,
          start, prev, layout, resolved>>

-----------------------------------------------------------------------------
(* Bounds of the model *)

MaxRuns == 2
MaxCalls == 2
MaxDepth == 7

(* Number of directories the template resolver inspects *)
SearchLevels == 6

-----------------------------------------------------------------------------
(* The plan *)

ProjectKind == {"web", "app", "full"}

ScaffoldPlan == [kind : ProjectKind, install : BOOLEAN, git : BOOLEAN]

-----------------------------------------------------------------------------
(* The target directory *)

TopLevel == {"package.json", "pnpm-workspace.yaml", "turbo.json", "apps",
             "packages", "biome.json", ".npmrc", "node_modules", ".git",
             "user.txt"}

UnderApps == {"apps/example", "apps/api", "apps/web", "apps/app"}

UnderPackages == {"packages/example"}

Paths == TopLevel \cup UnderApps \cup UnderPackages

EmptyTree == [p \in Paths |-> "absent"]

\* fs.readdir(rootDir)
readdir(t) == {p \in TopLevel : t[p] # "absent"}

Present(t) == {p \in Paths : t[p] # "absent"}

-----------------------------------------------------------------------------
(* JSON values of the root package.json that the patch looks at.           *)
(* A leaf is absent, null, or a string; scripts and devDependencies are    *)
(* absent, null, a primitive, or an object.                                *)

CheckDefault == "biome check ."
FormatDefault == "biome check . --write"
BiomeDefault == "^2.3.10"

Leaf == {"ABSENT", "NULL", "custom"}

ScriptLeaf(d) == Leaf \cup {d}

NonObject == {"absent", "null", "prim"}

Scripts ==
    [kind : NonObject, check : {"ABSENT"}, format : {"ABSENT"}, build : {"ABSENT"}]
    \cup [kind : {"obj"}, check : ScriptLeaf(CheckDefault),
          format : ScriptLeaf(FormatDefault), build : {"ABSENT", "turbo build"}]

DevDependencies ==
    [kind : NonObject, biome : {"ABSENT"}, turbo : {"ABSENT"}]
    \cup [kind : {"obj"}, biome : ScriptLeaf(BiomeDefault),
          turbo : {"ABSENT", "^2.0.0"}]

Manifest == [name : {"with-shell-commands"}, scripts : Scripts,
             devDependencies : DevDependencies]

NoPkg == [name |-> "ABSENT",
          scripts |-> [kind |-> "absent", check |-> "ABSENT",
                       format |-> "ABSENT", build |-> "ABSENT"],
          devDependencies |-> [kind |-> "absent", biome |-> "ABSENT",
                               turbo |-> "ABSENT"]]

-----------------------------------------------------------------------------
(* patchRootPackageJson: `x ??= d` assigns d when x is undefined or null.  *)

EmptyScripts == [kind |-> "obj", check |-> "ABSENT", format |-> "ABSENT",
                 build |-> "ABSENT"]

EmptyDeps == [kind |-> "obj", biome |-> "ABSENT", turbo |-> "ABSENT"]

Nullish(v) == v \in {"ABSENT", "NULL"}

\* a plain assignment in place of ??=
NullishAssign_Clobber(v, d) == d

\* leaf ??= d
NullishAssign(v, d) == IF Nullish(v) THEN d ELSE v

\* object ??= {}
NullishObject(o, e) == IF o.kind \in {"absent", "null"} THEN e ELSE o

\* Assigning a property on a primitive throws a TypeError in module code.
PatchThrows(m) ==
    \/ NullishObject(m.scripts, EmptyScripts).kind = "prim"
    \/ NullishObject(m.devDependencies, EmptyDeps).kind = "prim"

PatchedPkg(m) ==
    LET s == NullishObject(m.scripts, EmptyScripts)
        d == NullishObject(m.devDependencies, EmptyDeps)
    IN [m EXCEPT
          !.scripts = [s EXCEPT !.check = NullishAssign(@, CheckDefault),
                                !.format = NullishAssign(@, FormatDefault)],
          !.devDependencies = [d EXCEPT !.biome = NullishAssign(@, BiomeDefault)]]

patchRootPackageJson(m) ==
    IF PatchThrows(m) THEN [ok |-> FALSE, pkg |-> m]
    ELSE [ok |-> TRUE, pkg |-> PatchedPkg(m)]

-----------------------------------------------------------------------------
(* The directory guards *)

\* a guard that clears a populated directory instead of refusing it
bootstrapGuard_Force(ex, t) ==
    [ok |-> TRUE, rootExists |-> FALSE, tree |-> EmptyTree]

\* the guard at the head of bootstrapTurborepo: an existing empty directory
\* is removed so that create-turbo can create it itself
bootstrapGuard(ex, t) ==
    IF ex
    THEN IF readdir(t) # {}
         THEN [ok |-> FALSE, rootExists |-> ex, tree |-> t]
         ELSE [ok |-> TRUE, rootExists |-> FALSE, tree |-> EmptyTree]
    ELSE [ok |-> TRUE, rootExists |-> ex, tree |-> t]

\* a guard that removes the empty directory, as the bootstrap guard does
ensureEmptyDir_Remove(ex, t) ==
    IF ex /\ readdir(t) # {}
    THEN [ok |-> FALSE, rootExists |-> ex, tree |-> t]
    ELSE [ok |-> TRUE, rootExists |-> FALSE, tree |-> t]

\* scaffold/fs.ts: an existing empty directory is left as it is
ensureEmptyDir(ex, t) ==
    IF ex
    THEN IF readdir(t) # {}
         THEN [ok |-> FALSE, rootExists |-> ex, tree |-> t]
         ELSE [ok |-> TRUE, rootExists |-> ex, tree |-> t]
    ELSE [ok |-> TRUE, rootExists |-> TRUE, tree |-> t]

-----------------------------------------------------------------------------
(* The template resolver.  Directories on the path from the filesystem     *)
(* root (level 0) to the program's own directory (level layout.depth) are  *)
(* named by their level; layout.has is the set of levels holding an entry  *)
(* named templates.                                                        *)

Layouts == UNION {[depth : {d}, has : SUBSET (0..d)] : d \in 0..MaxDepth}

\* a walk that climbs two levels per iteration
Dirname_TwoUp(d) == IF d < 2 THEN 0 ELSE d - 2

\* path.dirname: the parent, and the root is its own parent
Dirname(d) == IF d = 0 THEN 0 ELSE d - 1

\* nodeFs.existsSync(path.join(dir, "templates"))
existsSync(lay, dir) == dir \in lay.has

RECURSIVE Walk(_, _, _)
Walk(lay, dir, i) ==
    IF i >= SearchLevels
    THEN [found |-> FALSE, at |-> lay.depth]
    ELSE IF existsSync(lay, dir)
         THEN [found |-> TRUE, at |-> dir]
         ELSE Walk(lay, Dirname(dir), i + 1)

\* found: `at` is the level whose templates/ is returned;
\* otherwise `at` is the directory the error message names
templatesDir(lay) == Walk(lay, lay.depth, 0)

-----------------------------------------------------------------------------
(* The pipeline: the awaited steps of createProject and postCreate in the  *)
(* order the code executes them.                                           *)

\* workspace and root manifest written after the templates and generators
Order_ManifestsLast ==
    <<"guard", "createTurbo", "normalizeDirs", "copyBiome", "copyNpmrc",
      "copyApi", "generateNextWebApp", "generateExpoApp",
      "setupNativeWindExpo", "writeWorkspaceYaml", "patchRootPackageJson",
      "install", "gitInit">>

Order ==
    <<"guard", "createTurbo", "normalizeDirs", "writeWorkspaceYaml",
      "copyBiome", "copyNpmrc", "patchRootPackageJson", "copyApi",
      "generateNextWebApp", "generateExpoApp", "setupNativeWindExpo",
      "install", "gitInit">>

Steps == {Order[i] : i \in 1..Len(Order)}

\* the steps of createProject; the remaining ones belong to postCreate
CreateSteps == Steps \ {"install", "gitInit"}

Generators == {"createTurbo", "generateNextWebApp", "generateExpoApp"}

\* a gate that takes "full" for neither branch
WebGated_Exact(p) == p.kind = "web"

\* if (plan.kind === "web" || plan.kind === "full")
WebGated(p) == p.kind \in {"web", "full"}

\* if (plan.kind === "app" || plan.kind === "full")
AppGated(p) == p.kind \in {"app", "full"}

\* install run unconditionally
InstallGated_Always(p) == TRUE

\* if (plan.install)
InstallGated(p) == p.install

\* if (plan.git)
GitGated(p) == p.git

Runs(step, p) ==
    CASE step = "generateNextWebApp" -> WebGated(p)
      [] step \in {"generateExpoApp", "setupNativeWindExpo"} -> AppGated(p)
      [] step = "install" -> InstallGated(p)
      [] step = "gitInit" -> GitGated(p)
      [] OTHER -> TRUE

Index(step) == CHOOSE i \in 1..Len(Order) : Order[i] = step

\* the step control reaches when `step` returns normally
After(step, p) ==
    LET later == {j \in (Index(step) + 1)..Len(Order) : Runs(Order[j], p)}
    IN IF later = {} THEN "done"
       ELSE Order[CHOOSE j \in later : \A k \in later : j <= k]

\* a rejected promise swallowed by a catch around the step
OnFailure_Swallow(step, p) == After(step, p)

\* no try/catch anywhere: a rejected await ends the run
OnFailure(step, p) == "failed"

FS == [rootExists |-> rootExists, tree |-> tree, rootPkg |-> rootPkg,
       workspaceYaml |-> workspaceYaml]

\* the packages: list written by normalizeTurborepo, flipped
workspaceYamlEntries_Swapped == <<"packages/*", "apps/*">>

\* packages:\n  - "apps/*"\n  - "packages/*"\n
workspaceYamlEntries == <<"apps/*", "packages/*">>

(* What create-turbo's example ships; its content is the generator's own. *)
TurboWorkspaces == {<<"apps/*", "packages/*">>, <<"apps/*">>}

TurboManifests ==
    {m \in Manifest :
        /\ m.devDependencies.kind = "obj"
        /\ m.devDependencies.turbo = "^2.0.0"
        /\ m.devDependencies.biome \in {"ABSENT", "custom"}
        /\ \/ m.scripts.kind = "prim"
           \/ /\ m.scripts.kind = "obj"
              /\ m.scripts.build = "turbo build"
              /\ m.scripts.format = "ABSENT"
              /\ m.scripts.check \in {"ABSENT", "custom"}}

TurboTree(t) ==
    [p \in Paths |->
        IF p \in {"package.json", "pnpm-workspace.yaml", "turbo.json", "apps",
                  "apps/example", "packages", "packages/example"}
        THEN "turbo" ELSE t[p]]

\* a step that succeeded: move on
Advance(step) ==
    /\ pc' = After(step, plan)
    /\ trace' = Append(trace, step)
    /\ cond' = cond

\* a step that threw
Abort(step, c) ==
    /\ pc' = OnFailure(step, plan)
    /\ trace' = Append(trace, step)
    /\ cond' = c

Frame == UNCHANGED <<plan, run, start, prev, layout, resolved>>

-----------------------------------------------------------------------------
(* bootstrapTurborepo *)

Guard ==
    /\ pc = "guard"
    /\ LET g == bootstrapGuard(rootExists, tree)
       IN IF g.ok
          THEN /\ rootExists' = g.rootExists
               /\ tree' = g.tree
               /\ Advance("guard")
          ELSE /\ UNCHANGED <<rootExists, tree>>
               /\ Abort("guard", "DirectoryNotEmpty")
    /\ UNCHANGED <<rootPkg, workspaceYaml>>
    /\ Frame

\* pnpm dlx create-turbo@latest <dirName> ...; a failed generator leaves
\* nothing, an empty directory or part of its output behind
CreateTurbo ==
    /\ pc = "createTurbo"
    /\ \E out \in {"ok", "nothing", "emptyDir", "partial"} :
         CASE out = "ok" ->
                /\ \E m \in TurboManifests, y \in TurboWorkspaces :
                     /\ rootPkg' = m
                     /\ workspaceYaml' = y
                /\ rootExists' = TRUE
                /\ tree' = TurboTree(tree)
                /\ Advance("createTurbo")
           [] out = "nothing" ->
                /\ UNCHANGED <<rootExists, tree, rootPkg, workspaceYaml>>
                /\ Abort("createTurbo", "GeneratorFailed")
           [] out = "emptyDir" ->
                /\ rootExists' = TRUE
                /\ UNCHANGED <<tree, rootPkg, workspaceYaml>>
                /\ Abort("createTurbo", "GeneratorFailed")
           [] out = "partial" ->
                /\ rootExists' = TRUE
                /\ tree' = [tree EXCEPT !["turbo.json"] = "turbo"]
                /\ UNCHANGED <<rootPkg, workspaceYaml>>
                /\ Abort("createTurbo", "GeneratorFailed")
    /\ Frame

-----------------------------------------------------------------------------
(* normalizeTurborepo *)

\* mkdirp(apps), mkdirp(packages), emptyDir(apps), emptyDir(packages)
NormalizedTree(t) ==
    [p \in Paths |->
        IF p \in UnderApps \cup UnderPackages THEN "absent"
        ELSE IF p \in {"apps", "packages"} /\ t[p] = "absent" THEN "scaffold"
        ELSE t[p]]

NormalizeDirs ==
    /\ pc = "normalizeDirs"
    /\ \E io \in {"ok", "fail"} :
         IF io = "ok"
         THEN /\ rootExists' = TRUE
              /\ tree' = NormalizedTree(tree)
              /\ Advance("normalizeDirs")
         ELSE /\ UNCHANGED <<rootExists, tree>>
              /\ Abort("normalizeDirs", "IOError")
    /\ UNCHANGED <<rootPkg, workspaceYaml>>
    /\ Frame

\* fs.writeFile(<root>/pnpm-workspace.yaml, workspaceYaml)
WriteWorkspaceYaml ==
    /\ pc = "writeWorkspaceYaml"
    /\ \E io \in {"ok", "fail"} :
         IF io = "ok"
         THEN /\ workspaceYaml' = workspaceYamlEntries
              /\ tree' = [tree EXCEPT !["pnpm-workspace.yaml"] = "scaffold"]
              /\ Advance("writeWorkspaceYaml")
         ELSE /\ UNCHANGED <<workspaceYaml, tree>>
              /\ Abort("writeWorkspaceYaml", "ManifestReadWriteFailure")
    /\ UNCHANGED <<rootExists, rootPkg>>
    /\ Frame

\* fs.copy(templatesPath(...), dest, { overwrite: true })
CopyTemplate(step, dest) ==
    /\ pc = step
    /\ \E io \in {"ok", "fail"} :
         IF ~templatesDir(layout).found
         THEN /\ UNCHANGED tree
              /\ Abort(step, "TemplateTreeNotFound")
         ELSE IF io = "ok"
              THEN /\ tree' = [tree EXCEPT ![dest] = "template"]
                   /\ Advance(step)
              ELSE /\ UNCHANGED tree
                   /\ Abort(step, "IOError")
    /\ UNCHANGED <<rootExists, rootPkg, workspaceYaml>>
    /\ Frame

CopyBiome == CopyTemplate("copyBiome", "biome.json")

CopyNpmrc == CopyTemplate("copyNpmrc", ".npmrc")

CopyApi == CopyTemplate("copyApi", "apps/api")

\* readJson, the ??= patch, writeJson
PatchRootPackageJson ==
    /\ pc = "patchRootPackageJson"
    /\ \E io \in {"ok", "fail"} :
         LET r == patchRootPackageJson(rootPkg)
         IN IF io = "fail" \/ tree["package.json"] = "absent"
            THEN /\ UNCHANGED <<rootPkg, tree>>
                 /\ Abort("patchRootPackageJson", "ManifestReadWriteFailure")
            ELSE IF ~r.ok
                 THEN /\ UNCHANGED <<rootPkg, tree>>
                      /\ Abort("patchRootPackageJson", "TypeError")
                 ELSE /\ rootPkg' = r.pkg
                      /\ tree' = [tree EXCEPT !["package.json"] = "scaffold"]
                      /\ Advance("patchRootPackageJson")
    /\ UNCHANGED <<rootExists, workspaceYaml>>
    /\ Frame

\* an external generator run inside the project; a failed one may leave
\* part of its output behind
Generate(step, dest, tag) ==
    /\ pc = step
    /\ \E out \in {"ok", "nothing", "partial"} :
         CASE out = "ok" ->
                /\ tree' = [tree EXCEPT ![dest] = tag]
                /\ Advance(step)
           [] out = "nothing" ->
                /\ UNCHANGED tree
                /\ Abort(step, "GeneratorFailed")
           [] out = "partial" ->
                /\ tree' = [tree EXCEPT ![dest] = "partial"]
                /\ Abort(step, "GeneratorFailed")
    /\ UNCHANGED <<rootExists, rootPkg, workspaceYaml>>
    /\ Frame

GenerateNextWebApp == Generate("generateNextWebApp", "apps/web", "next")

GenerateExpoApp == Generate("generateExpoApp", "apps/app", "expo")

\* patches apps/app/package.json and writes the NativeWind config files
SetupNativeWindExpo ==
    /\ pc = "setupNativeWindExpo"
    /\ \E io \in {"ok", "fail"} :
         IF io = "ok"
         THEN /\ tree' = [tree EXCEPT !["apps/app"] = "nativewind"]
              /\ Advance("setupNativeWindExpo")
         ELSE /\ UNCHANGED tree
              /\ Abort("setupNativeWindExpo", "ManifestReadWriteFailure")
    /\ UNCHANGED <<rootExists, rootPkg, workspaceYaml>>
    /\ Frame

-----------------------------------------------------------------------------
(* postCreate *)

\* runCommand(rootDir, cmd, args)
RunCommand(step, dest, tag) ==
    /\ pc = step
    /\ \E out \in {"ok", "fail"} :
         IF out = "ok"
         THEN /\ tree' = [tree EXCEPT ![dest] = tag]
              /\ Advance(step)
         ELSE /\ UNCHANGED tree
              /\ Abort(step, "CommandFailed")
    /\ UNCHANGED <<rootExists, rootPkg, workspaceYaml>>
    /\ Frame

Install == RunCommand("install", "node_modules", "pnpm")

GitInit == RunCommand("gitInit", ".git", "git")

-----------------------------------------------------------------------------
(* The process ends; the user may clean up and invoke the program again.   *)

Exit ==
    /\ pc \in {"done", "failed"}
    /\ pc' = "idle"
    /\ prev' = [status |-> pc, fs |-> FS]
    /\ UNCHANGED <<plan, run, cond, trace, rootExists, tree, rootPkg,
                   workspaceYaml, start, layout, resolved>>

UserCleanup ==
    /\ pc = "idle"
    /\ rootExists
    /\ rootExists' = FALSE
    /\ tree' = EmptyTree
    /\ rootPkg' = NoPkg
    /\ workspaceYaml' = <<>>
    /\ UNCHANGED <<plan, run, pc, cond, trace, start, prev, layout, resolved>>

\* collectPlan of the next invocation, same projectName and cwd
NewRun ==
    /\ pc = "idle"
    /\ run < MaxRuns
    /\ run' = run + 1
    /\ plan' \in ScaffoldPlan
    /\ pc' = "guard"
    /\ cond' = "none"
    /\ trace' = <<>>
    /\ start' = FS
    /\ UNCHANGED <<rootExists, tree, rootPkg, workspaceYaml, prev, layout,
                   resolved>>

-----------------------------------------------------------------------------

InitialTrees ==
    {EmptyTree, [EmptyTree EXCEPT !["user.txt"] = "user"]}

PipelineLayouts == {[depth |-> 2, has |-> {1}], [depth |-> 2, has |-> {}]}

NoResult == [state |-> "unused", i |-> 0, dir |-> 0, inspected |-> <<>>,
             at |-> 0]

Init ==
    /\ plan \in ScaffoldPlan
    /\ run = 1
    /\ pc = "guard"
    /\ cond = "none"
    /\ trace = <<>>
    /\ \E ex \in BOOLEAN, t \in InitialTrees :
         /\ (~ex => t = EmptyTree)
         /\ rootExists = ex
         /\ tree = t
    /\ rootPkg = NoPkg
    /\ workspaceYaml = <<>>
    /\ start = FS
    /\ prev = [status |-> "none", fs |-> FS]
    /\ layout \in PipelineLayouts
    /\ resolved = NoResult

Next ==
    \/ Guard
    \/ CreateTurbo
    \/ NormalizeDirs
    \/ WriteWorkspaceYaml
    \/ CopyBiome
    \/ CopyNpmrc
    \/ PatchRootPackageJson
    \/ CopyApi
    \/ GenerateNextWebApp
    \/ GenerateExpoApp
    \/ SetupNativeWindExpo
    \/ Install
    \/ GitInit
    \/ Exit
    \/ UserCleanup
    \/ NewRun

Spec == Init /\ [][Next]_vars

TypeOK ==
    /\ plan \in ScaffoldPlan
    /\ run \in 1..MaxRuns
    /\ pc \in Steps \cup {"done", "failed", "idle"}
    /\ rootExists \in BOOLEAN
    /\ (~rootExists => Present(tree) = {})

-----------------------------------------------------------------------------
(* The guards called repeatedly on one path, with nothing in between.      *)
(* pc names the guard under call; trace collects the outcome of each call. *)

GuardTrees == {[p \in Paths |-> IF p \in S THEN "user" ELSE "absent"] :
               S \in SUBSET {"user.txt", ".git", "node_modules", "package.json",
                              "apps"}}

InitGuard ==
    /\ plan = [kind |-> "full", install |-> FALSE, git |-> FALSE]
    /\ run = 1
    /\ pc \in {"ensureEmptyDir", "bootstrapGuard"}
    /\ cond = "none"
    /\ trace = <<>>
    /\ \E ex \in BOOLEAN, t \in GuardTrees :
         /\ (~ex => t = EmptyTree)
         /\ rootExists = ex
         /\ tree = t
    /\ rootPkg = NoPkg
    /\ workspaceYaml = <<>>
    /\ start = FS
    /\ prev = [status |-> "none", fs |-> FS]
    /\ layout = [depth |-> 2, has |-> {1}]
    /\ resolved = NoResult

CallGuard(name, g) ==
    /\ pc = name
    /\ Len(trace) < MaxCalls
    /\ rootExists' = g.rootExists
    /\ tree' = g.tree
    /\ trace' = Append(trace, IF g.ok THEN "ok" ELSE "DirectoryNotEmpty")
    /\ UNCHANGED <<plan, run, pc, cond, rootPkg, workspaceYaml, start, prev,
                   layout, resolved>>

CallEnsureEmptyDir ==
    CallGuard("ensureEmptyDir", ensureEmptyDir(rootExists, tree))

CallBootstrapGuard ==
    CallGuard("bootstrapGuard", bootstrapGuard(rootExists, tree))

NextGuard == CallEnsureEmptyDir \/ CallBootstrapGuard

SpecGuard == InitGuard /\ [][NextGuard]_vars

-----------------------------------------------------------------------------
(* patchRootPackageJson on any root manifest the generator may have left *)

InitPatch ==
    /\ plan = [kind |-> "full", install |-> FALSE, git |-> FALSE]
    /\ run = 1
    /\ pc = "patchRootPackageJson"
    /\ cond = "none"
    /\ trace = <<>>
    /\ rootExists = TRUE
    /\ tree = TurboTree(EmptyTree)
    /\ rootPkg \in Manifest
    /\ workspaceYaml = workspaceYamlEntries
    /\ start = FS
    /\ prev = [status |-> "none", fs |-> FS]
    /\ layout = [depth |-> 2, has |-> {1}]
    /\ resolved = NoResult

SpecPatch == InitPatch /\ [][PatchRootPackageJson]_vars

-----------------------------------------------------------------------------
(* templatesDir, one loop iteration per step *)

InitResolve ==
    /\ plan = [kind |-> "full", install |-> FALSE, git |-> FALSE]
    /\ run = 1
    /\ pc = "templatesDir"
    /\ cond = "none"
    /\ trace = <<>>
    /\ rootExists = FALSE
    /\ tree = EmptyTree
    /\ rootPkg = NoPkg
    /\ workspaceYaml = <<>>
    /\ start = FS
    /\ prev = [status |-> "none", fs |-> FS]
    /\ layout \in Layouts
    /\ resolved = [state |-> "loop", i |-> 0, dir |-> layout.depth,
                   inspected |-> <<>>, at |-> 0]

\* for (let i = 0; i < 6; i++) { ... } throw new Error(...)
ResolveStep ==
    /\ pc = "templatesDir"
    /\ resolved.state = "loop"
    /\ resolved' =
         IF resolved.i < SearchLevels
         THEN IF existsSync(layout, resolved.dir)
              THEN [resolved EXCEPT
                      !.state = "returned",
                      !.at = resolved.dir,
                      !.inspected = Append(@, resolved.dir)]
              ELSE [resolved EXCEPT
                      !.dir = Dirname(@),
                      !.i = @ + 1,
                      !.inspected = Append(@, resolved.dir)]
         ELSE [resolved EXCEPT !.state = "thrown", !.at = layout.depth]
    /\ UNCHANGED <<plan, run, pc, cond, trace, rootExists, tree, rootPkg,
                   workspaceYaml, start, prev, layout>>

SpecResolve == InitResolve /\ [][ResolveStep]_vars

-----------------------------------------------------------------------------
(* Vocabulary of the properties *)

Count(step) == Cardinality({i \in 1..Len(trace) : trace[i] = step})

Executed(step) == \E i \in 1..Len(trace) : trace[i] = step

Before(a, b) ==
    \A i, j \in 1..Len(trace) : (trace[i] = a /\ trace[j] = b) => i < j

Last(q) == q[Len(q)]

IsPrefix(a, b) == Len(a) <= Len(b) /\ \A i \in 1..Len(a) : a[i] = b[i]

HasWeb(k) == k \in {"web", "full"}

HasApp(k) == k \in {"app", "full"}

\* the process of the current run has not exited yet
Running == pc \in Steps \cup {"done", "failed"}

\* the step that raised the run's failure condition is a step of createProject
MaterializationFailed == cond # "none" /\ Last(trace) \in CreateSteps

InstallFailed == cond # "none" /\ Last(trace) = "install"

RunOver == pc \in {"done", "failed", "idle"}

CreateDone == pc \notin CreateSteps /\ ~MaterializationFailed

NonEmptyAtStart == start.rootExists /\ readdir(start.tree) # {}

RefusedByGuard ==
    \/ pc = "guard" /\ trace = <<>>
    \/ /\ pc \in {"failed", "idle"}
       /\ cond = "DirectoryNotEmpty"
       /\ trace = <<"guard">>
       /\ (pc = "failed" => FS = start)
       /\ (pc = "idle" => prev.fs = start)

-----------------------------------------------------------------------------
\* C1: in a run in which no step fails, generateNextWebApp is executed
\* exactly once when kind is web or full and never otherwise, and
\* generateExpoApp followed by setupNativeWindExpo are executed exactly once
\* each when kind is app or full and never otherwise; in no run is a
\* generator step executed that the kind gates out, or executed twice.
C1_Gating ==
    /\ Count("generateNextWebApp") <= (IF HasWeb(plan.kind) THEN 1 ELSE 0)
    /\ Count("generateExpoApp") <= (IF HasApp(plan.kind) THEN 1 ELSE 0)
    /\ Count("setupNativeWindExpo") <= Count("generateExpoApp")
    /\ Before("generateExpoApp", "setupNativeWindExpo")
    /\ (pc = "done" =>
          /\ Count("generateNextWebApp") = (IF HasWeb(plan.kind) THEN 1 ELSE 0)
          /\ Count("generateExpoApp") = (IF HasApp(plan.kind) THEN 1 ELSE 0)
          /\ Count("setupNativeWindExpo") = (IF HasApp(plan.kind) THEN 1 ELSE 0))

C1_Witness ==
    /\ pc = "done"
    /\ plan.kind = "full"
    /\ Executed("generateNextWebApp")
    /\ Executed("setupNativeWindExpo")

\* C2: when the target directory exists and holds at least one entry at the
\* start of a run, the only step the run attempts is the guard, it fails
\* with DirectoryNotEmpty, and the filesystem stays as it was at the start.
C2_NonEmptyRefused == NonEmptyAtStart => RefusedByGuard

C2_Witness ==
    /\ run = 1
    /\ pc = "failed"
    /\ cond = "DirectoryNotEmpty"
    /\ tree["user.txt"] = "user"

\* the member list the specification describes for a kind
ClaimedMembers(k) ==
    <<"api">> \o (IF HasWeb(k) THEN <<"web">> ELSE <<>>)
              \o (IF HasApp(k) THEN <<"app">> ELSE <<>>)
              \o <<"packages/*">>

\* C3 as stated: after a successful run pnpm-workspace.yaml lists api, then
\* web iff kind is web or full, then app iff kind is app or full, then one
\* trailing wildcard.
C3_Original == pc = "done" => workspaceYaml = ClaimedMembers(plan.kind)

\* C3 amended: after a successful run pnpm-workspace.yaml lists, for every
\* kind, the two wildcards apps/* and packages/* in this order, no entry
\* twice; the members the first wildcard covers are apps/api always,
\* apps/web iff kind is web or full, and apps/app iff kind is app or full.
C3_Amended ==
    pc = "done" =>
        /\ workspaceYaml = <<"apps/*", "packages/*">>
        /\ \A i, j \in 1..Len(workspaceYaml) :
              workspaceYaml[i] = workspaceYaml[j] => i = j
        /\ tree["pnpm-workspace.yaml"] = "scaffold"
        /\ tree["apps/api"] = "template"
        /\ (tree["apps/web"] # "absent" <=> HasWeb(plan.kind))
        /\ (tree["apps/app"] # "absent" <=> HasApp(plan.kind))
        /\ tree["apps/example"] = "absent"
        /\ tree["packages/example"] = "absent"

C3_Witness ==
    /\ pc = "done"
    /\ plan.kind = "web"
    /\ tree["apps/web"] = "next"
    /\ tree["pnpm-workspace.yaml"] = "scaffold"

-----------------------------------------------------------------------------
(* Root manifest patch: `start.rootPkg` is the manifest read from disk,    *)
(* `rootPkg` the one on disk afterwards.                                   *)

Written == pc = "copyApi" /\ trace = <<"patchRootPackageJson">>

Read == start.rootPkg

\* a leaf key that is present (whatever its value) is written back as read
LeafKept(old, new) == old # "ABSENT" => new = old

\* a leaf key that holds a non-null value is written back as read
LeafKeptUnlessNull(old, new) == ~Nullish(old) => new = old

\* a leaf key takes the default exactly when it was absent or null
LeafDefaulted(old, new, d) == Nullish(old) => new = d

OtherKeysKept ==
    /\ rootPkg.name = Read.name
    /\ (Read.scripts.kind = "obj" => rootPkg.scripts.build = Read.scripts.build)
    /\ (Read.devDependencies.kind = "obj" =>
          rootPkg.devDependencies.turbo = Read.devDependencies.turbo)

\* C4 as stated: each of scripts, scripts.check, scripts.format,
\* devDependencies and devDependencies["@biomejs/biome"] that is present in
\* the manifest read, null included, is written back with the value read; a
\* default is given only to an absent key; every other key is unchanged.
C4_Original ==
    Written =>
        /\ (Read.scripts.kind # "absent" => rootPkg.scripts.kind = Read.scripts.kind)
        /\ (Read.devDependencies.kind # "absent" =>
              rootPkg.devDependencies.kind = Read.devDependencies.kind)
        /\ (Read.scripts.kind = "obj" =>
              /\ LeafKept(Read.scripts.check, rootPkg.scripts.check)
              /\ LeafKept(Read.scripts.format, rootPkg.scripts.format))
        /\ (Read.devDependencies.kind = "obj" =>
              LeafKept(Read.devDependencies.biome, rootPkg.devDependencies.biome))
        /\ OtherKeysKept

\* C4 amended: each of the five keys that holds a non-null value in the
\* manifest read is written back with the value read; a key that is absent
\* or null is given its fixed default ({} for scripts and devDependencies);
\* every other key is written back unchanged; when the patch throws (scripts
\* or devDependencies is a primitive) nothing is written.
C4_Amended ==
    /\ (Written =>
          /\ rootPkg.scripts.kind = "obj"
          /\ rootPkg.devDependencies.kind = "obj"
          /\ Read.scripts.kind \in {"obj", "absent", "null"}
          /\ Read.devDependencies.kind \in {"obj", "absent", "null"}
          /\ LeafKeptUnlessNull(Read.scripts.check, rootPkg.scripts.check)
          /\ LeafKeptUnlessNull(Read.scripts.format, rootPkg.scripts.format)
          /\ LeafKeptUnlessNull(Read.devDependencies.biome,
                                rootPkg.devDependencies.biome)
          /\ LeafDefaulted(Read.scripts.check, rootPkg.scripts.check,
                           "biome check .")
          /\ LeafDefaulted(Read.scripts.format, rootPkg.scripts.format,
                           "biome check . --write")
          /\ LeafDefaulted(Read.devDependencies.biome,
                           rootPkg.devDependencies.biome, "^2.3.10")
          /\ OtherKeysKept)
    /\ (pc = "failed" => rootPkg = Read)

C4_Witness ==
    /\ Written
    /\ Read.scripts.kind = "obj"
    /\ Read.scripts.check = "custom"
    /\ Read.scripts.format = "NULL"
    /\ Read.devDependencies.kind = "null"
    /\ rootPkg.scripts.check = "custom"

-----------------------------------------------------------------------------
\* the steps of createProject that a plan of this kind executes
RequiredCreate(k) ==
    {"guard", "createTurbo", "normalizeDirs", "writeWorkspaceYaml",
     "copyBiome", "copyNpmrc", "patchRootPackageJson", "copyApi"}
    \cup (IF HasWeb(k) THEN {"generateNextWebApp"} ELSE {})
    \cup (IF HasApp(k) THEN {"generateExpoApp", "setupNativeWindExpo"} ELSE {})

\* a post-create command is attempted only once all of createProject ran
AfterCreate(step) ==
    \A i \in 1..Len(trace) :
        trace[i] = step =>
            RequiredCreate(plan.kind) \subseteq {trace[j] : j \in 1..(i - 1)}

PostCreateSafety ==
    /\ Count("install") <= (IF plan.install THEN 1 ELSE 0)
    /\ Count("gitInit") <= (IF plan.git THEN 1 ELSE 0)
    /\ AfterCreate("install")
    /\ AfterCreate("gitInit")
    /\ Before("install", "gitInit")
    /\ (Executed("gitInit") /\ plan.install =>
          Executed("install") /\ ~InstallFailed)
    /\ (MaterializationFailed => Count("install") = 0 /\ Count("gitInit") = 0)

\* C5 as stated: in a run whose createProject succeeded, pnpm install is
\* invoked exactly once if plan.install and never otherwise, and git init is
\* invoked exactly once if plan.git and never otherwise, install first;
\* neither is invoked when materialization failed.
C5_Original ==
    /\ PostCreateSafety
    /\ (RunOver /\ CreateDone =>
          /\ Count("install") = (IF plan.install THEN 1 ELSE 0)
          /\ Count("gitInit") = (IF plan.git THEN 1 ELSE 0))

\* C5 amended: as stated, except that git init is invoked exactly once if
\* plan.git is true and the install command did not fail; when the install
\* command fails, git init is not invoked.
C5_Amended ==
    /\ PostCreateSafety
    /\ (RunOver /\ CreateDone =>
          /\ Count("install") = (IF plan.install THEN 1 ELSE 0)
          /\ Count("gitInit") = (IF plan.git /\ ~InstallFailed THEN 1 ELSE 0))

C5_Witness ==
    /\ pc = "done"
    /\ plan.install
    /\ plan.git
    /\ trace[Len(trace) - 1] = "install"
    /\ Last(trace) = "gitInit"

-----------------------------------------------------------------------------
\* C6: a failure at any step ends the run there: the failed step is the last
\* one attempted, no later step is executed, nothing written by earlier
\* steps is rolled back by the failing step, and until the process exits
\* the filesystem stays as it was at the moment of failure.
C6_AbortNoRollback ==
    /\ [](cond # "none" =>
            /\ pc \in {"failed", "idle"}
            /\ trace # <<>>
            /\ (pc = "idle" => prev.status = "failed"))
    /\ [][/\ (cond # "none" /\ pc = "failed" =>
                /\ trace' = trace
                /\ FS' = FS
                /\ pc' \in {"failed", "idle"}
                /\ (pc' = "idle" => prev'.fs = FS))
          /\ (cond = "none" /\ cond' # "none" =>
                /\ rootPkg' = rootPkg
                /\ workspaceYaml' = workspaceYaml
                /\ \A p \in Paths : tree[p] # "absent" => tree'[p] = tree[p])
         ]_vars

C6_Witness ==
    /\ pc = "failed"
    /\ cond = "GeneratorFailed"
    /\ Last(trace) = "generateNextWebApp"
    /\ tree["apps/api"] = "template"
    /\ tree["apps/web"] = "partial"

-----------------------------------------------------------------------------
EmptyAtStart == start.rootExists /\ readdir(start.tree) = {}

AllOk == \A i \in 1..Len(trace) : trace[i] = "ok"

\* C7 as stated: on an existing empty directory the guard, called twice in a
\* row, succeeds both times and after each call the directory exists and is
\* empty.
C7_Original ==
    EmptyAtStart =>
        /\ AllOk
        /\ (Len(trace) >= 1 => rootExists /\ readdir(tree) = {})

\* C7 amended: on an existing empty directory either guard, called twice in
\* a row, succeeds both times and leaves no entry under the path; after each
\* call of ensureEmptyDir the directory exists and is empty, while the guard
\* of bootstrapTurborepo removes the directory, so that after each of its
\* calls the path does not exist.
C7_Amended ==
    EmptyAtStart =>
        /\ AllOk
        /\ Present(tree) = {}
        /\ (pc = "ensureEmptyDir" => rootExists)
        /\ (pc = "bootstrapGuard" /\ Len(trace) >= 1 => ~rootExists)

C7_Witness ==
    /\ EmptyAtStart
    /\ pc = "bootstrapGuard"
    /\ Len(trace) = 2
    /\ ~rootExists

-----------------------------------------------------------------------------
(* Step order.  The steps of the specification's state machine are:        *)
(*   MATERIALIZE_TEMPLATES     copyBiome, copyNpmrc, copyApi               *)
(*   GENERATE_WEB              generateNextWebApp                          *)
(*   GENERATE_OR_TEMPLATE_APP  generateExpoApp, setupNativeWindExpo        *)
(*   WRITE_WORKSPACE_MANIFEST  writeWorkspaceYaml                          *)
(*   WRITE_ROOT_MANIFEST       patchRootPackageJson                        *)

Materialize == {"copyBiome", "copyNpmrc", "copyApi"}

GatedGenerators ==
    {"generateNextWebApp", "generateExpoApp", "setupNativeWindExpo"}

ManifestWrites == {"writeWorkspaceYaml", "patchRootPackageJson"}

Selected(step, p) ==
    CASE step = "generateNextWebApp" -> HasWeb(p.kind)
      [] step \in {"generateExpoApp", "setupNativeWindExpo"} -> HasApp(p.kind)
      [] step = "install" -> p.install
      [] step = "gitInit" -> p.git
      [] OTHER -> TRUE

RECURSIVE Filter(_, _)
Filter(q, p) ==
    IF q = <<>> THEN <<>>
    ELSE (IF Selected(Head(q), p) THEN <<Head(q)>> ELSE <<>>)
         \o Filter(Tail(q), p)

ClaimedOrder ==
    <<"guard", "createTurbo", "normalizeDirs", "copyBiome", "copyNpmrc",
      "copyApi", "generateNextWebApp", "generateExpoApp",
      "setupNativeWindExpo", "writeWorkspaceYaml", "patchRootPackageJson",
      "install", "gitInit">>

ExecutedOrder ==
    <<"guard", "createTurbo", "normalizeDirs", "writeWorkspaceYaml",
      "copyBiome", "copyNpmrc", "patchRootPackageJson", "copyApi",
      "generateNextWebApp", "generateExpoApp", "setupNativeWindExpo",
      "install", "gitInit">>

\* C8 as stated: the steps of a run occur in the order GUARD_ROOT,
\* BOOTSTRAP_EXTERNAL, MATERIALIZE_TEMPLATES, GENERATE_WEB,
\* GENERATE_OR_TEMPLATE_APP, WRITE_WORKSPACE_MANIFEST, WRITE_ROOT_MANIFEST,
\* DONE, none revisited; the two manifests are written only after template
\* materialization and every gated generator step have completed.
C8_Original ==
    Running =>
        /\ IsPrefix(trace, Filter(ClaimedOrder, plan))
        /\ \A w \in ManifestWrites :
              Executed(w) =>
                  \A s \in Materialize \cup GatedGenerators :
                      Selected(s, plan) => Executed(s) /\ Before(s, w)

\* C8 amended: the steps of a run occur in the order GUARD_ROOT,
\* BOOTSTRAP_EXTERNAL, directory normalisation, WRITE_WORKSPACE_MANIFEST,
\* root config templates (biome.json, .npmrc), WRITE_ROOT_MANIFEST, api
\* template, GENERATE_WEB when gated in, GENERATE_OR_TEMPLATE_APP when gated
\* in, DONE, one at a time and none revisited; the workspace manifest is
\* written before any template is materialized, and the root manifest
\* before the api tree and before every gated generator step.
C8_Amended ==
    Running =>
        /\ IsPrefix(trace, Filter(ExecutedOrder, plan))
        /\ (pc = "done" => trace = Filter(ExecutedOrder, plan))
        /\ (pc \in Steps => Len(trace) < Len(Filter(ExecutedOrder, plan))
                            /\ Filter(ExecutedOrder, plan)[Len(trace) + 1] = pc)
        /\ \A s \in Materialize : Before("writeWorkspaceYaml", s)
        /\ \A s \in GatedGenerators \cup {"copyApi"} :
              Before("patchRootPackageJson", s)
        /\ (Executed("copyApi") => Executed("patchRootPackageJson"))
        /\ (Executed("copyBiome") => Executed("writeWorkspaceYaml"))

C8_Witness ==
    /\ pc = "done"
    /\ plan = [kind |-> "full", install |-> TRUE, git |-> TRUE]
    /\ Len(trace) = 13

-----------------------------------------------------------------------------
\* C9: when the previous run with the same target failed leaving at least
\* one entry in the target directory and nothing was cleaned up since, the
\* next run attempts the guard only, fails with DirectoryNotEmpty, spawns no
\* generator, and leaves every entry of the first run as it was.
C9_RetryRefused ==
    (/\ run >= 2
     /\ Running
     /\ prev.status = "failed"
     /\ readdir(prev.fs.tree) # {}
     /\ start = prev.fs)
    => /\ RefusedByGuard
       /\ \A g \in Generators : ~Executed(g)
       /\ FS = prev.fs

C9_Witness ==
    /\ run = 2
    /\ pc = "failed"
    /\ cond = "DirectoryNotEmpty"
    /\ prev.status = "failed"
    /\ start = prev.fs
    /\ prev.fs.tree["apps/web"] = "partial"
    /\ tree["apps/web"] = "partial"

-----------------------------------------------------------------------------
Max(a, b) == IF a >= b THEN a ELSE b

\* the levels the walk may inspect: the program's directory and 5 parents
Reach == {l \in 0..layout.depth : layout.depth - l <= 5}

\* C10: the resolver terminates after inspecting at most 6 directories, the
\* program's own directory first and then one parent per iteration; it
\* returns the templates entry of the nearest inspected level that has one,
\* whatever the number of levels in between, and when no inspected level
\* has one it fails naming the directory the search started from.
C10_Resolver ==
    pc = "templatesDir" =>
        /\ resolved.i <= 6
        /\ Len(resolved.inspected) <= 6
        /\ \A k \in 1..Len(resolved.inspected) :
              resolved.inspected[k] = Max(layout.depth - (k - 1), 0)
        /\ (resolved.state = "loop" => ENABLED ResolveStep)
        /\ (resolved.state = "returned" =>
              /\ resolved.at \in layout.has \cap Reach
              /\ \A l \in layout.has : l <= resolved.at
              /\ Last(resolved.inspected) = resolved.at)
        /\ (resolved.state = "thrown" =>
              /\ layout.has \cap Reach = {}
              /\ Len(resolved.inspected) = 6
              /\ resolved.at = layout.depth)
        /\ (resolved.state # "loop" =>
              /\ templatesDir(layout).found = (resolved.state = "returned")
              /\ templatesDir(layout).at = resolved.at)

C10_Witness ==
    /\ pc = "templatesDir"
    /\ resolved.state = "returned"
    /\ layout.depth - resolved.at = 5
    /\ Len(resolved.inspected) = 6
    /\ Cardinality(layout.has) >= 2

====
